---------------------------- MODULE Spec2Model ----------------------------
(***************************************************************************)
(* Model of the Proposal_backend canister (src/Proposal_backend/src/lib.rs).*)
(*                                                                         *)
(* The canister keeps one StableBTreeMap<u64, Proposal> (PROPOSAL_MAP) and  *)
(* exposes two queries (get_proposal, get_proposal_count) and four updates  *)
(* (create_proposal, edit_proposal, end_proposal, vote).  The Internet      *)
(* Computer runs one message to completion before the next, so every        *)
(* handler is one atomic action.  A handler that panics (a trap) has its    *)
(* state changes rolled back and its caller gets a reject instead of the    *)
(* handler's return value.                                                  *)
(***************************************************************************)
EXTENDS Integers, Sequences, FiniteSets, TLC

(***************************************************************************)
(* Bounds of the model.                                                    *)
(***************************************************************************)
\* keys are u64; the model uses the keys 1..MaxKey
MaxKey == 1

Keys == 1..MaxKey

\* candid::Principal: caller identities, opaque and comparable.  Two of them
\* give every case the handlers distinguish: owner or not, voted or not.
Principals == {"A", "B"}

(***************************************************************************)
(* Program constants and types.                                            *)
(***************************************************************************)
\* const MAX_VALUE_SIZE: u32 = 5000;
MAX_VALUE_SIZE == 5000

\* enum Choice
Choice == {"Approve", "Reject", "Pass"}

\* enum VoteError: the handlers' errors are the strings "AlreadyVoted",
\* "ProposalIsNotActive", "NoSuchProposal", "AccessRejected" and "UpdateError"
\* (which carries the fixed message "Insert failed"); "Ok" is Ok(()).

\* Option<T>: None is the empty sequence, Some(x) the one-element sequence
None == << >>

Some(x) == << x >>

\* Option::ok_or(err) as the handlers use it on insert's result: the Ok
\* payload is dropped, the handlers return Result<(), VoteError>
ok_or(opt, err) == IF opt = None THEN err ELSE "Ok"

(***************************************************************************)
(* Descriptions.  A description is a String; the model draws it from three  *)
(* texts that differ in length: a short one, one that makes a record with   *)
(* no voter exactly MAX_VALUE_SIZE bytes long, and one longer than          *)
(* MAX_VALUE_SIZE by itself.                                                *)
(***************************************************************************)
Descriptions == {"short", "near", "big"}

\* byte length of each description text
DescriptionLen(d) ==
    CASE d = "short" -> 12
      [] d = "near"  -> 4901
      [] d = "big"   -> 5000

\* byte length of a principal (a self-authenticating principal: 29 bytes)
PrincipalLen(p) == 29

(***************************************************************************)
(* Record codec: the length of Encode!(self), the Candid encoding of a      *)
(* Proposal.  Header: "DIDL", a type table of two entries (the record with  *)
(* its seven hashed field ids, and vec principal), one argument.  Values:   *)
(* text = LEB128 length + bytes; nat32 = 4 bytes; bool = 1 byte;            *)
(* principal = flag byte + LEB128 length + bytes; vec = LEB128 count +      *)
(* elements.                                                                *)
(***************************************************************************)
RECURSIVE Leb128Len(_)
Leb128Len(n) == IF n < 128 THEN 1 ELSE 1 + Leb128Len(n \div 128)

\* "DIDL" 4 + table count 1 + record entry 43 + vec entry 2 + arg count 1 + arg type 1
CandidHeaderLen == 52

PrincipalEncLen(p) == 1 + Leb128Len(PrincipalLen(p)) + PrincipalLen(p)

RECURSIVE SumPrincipalEncLen(_)
SumPrincipalEncLen(s) ==
    IF s = << >> THEN 0 ELSE PrincipalEncLen(Head(s)) + SumPrincipalEncLen(Tail(s))

\* length of to_bytes(p)
EncodedLen(p) ==
    CandidHeaderLen
    + Leb128Len(DescriptionLen(p.description)) + DescriptionLen(p.description)
    + 4 + 4 + 4
    + 1
    + Leb128Len(Len(p.voted)) + SumPrincipalEncLen(p.voted)
    + PrincipalEncLen(p.owner)

\* mutant of FitsMaxSize: the bound is not enforced on a write
FitsMaxSize_Unchecked(p) == TRUE

\* BoundedStorable: StableBTreeMap::insert panics when the encoded value is
\* longer than MAX_SIZE
FitsMaxSize(p) == EncodedLen(p) <= MAX_VALUE_SIZE

(***************************************************************************)
(* State.                                                                  *)
(***************************************************************************)
VARIABLES
    PROPOSAL_MAP,   \* the map: a function from the keys present to Proposal records
    last,           \* the last call: operation, caller, arguments and what it returned
    passed_keys,    \* history: the keys create_proposal has been called with
    created_keys,   \* history: the keys of the create_proposal calls that completed
    ok_votes,       \* history: <<key, caller>> of every vote that returned Ok since
                    \*          the record now at key was created
    phase,          \* history, kept by SpecReopen only: per key, "ended" after a
                    \*          successful end_proposal, "reopened" after the owner's
                    \*          edit_proposal then set is_active again, "-" otherwise
    codec           \* the record codec at work, used by SpecCodec only

vars == << PROPOSAL_MAP, last, passed_keys, created_keys, ok_votes, phase, codec >>

\* StableBTreeMap::get
get(m, key) == IF key \in DOMAIN m THEN Some(m[key]) ELSE None

\* mutant of len: only the active proposals are counted
len_ActiveOnly(m) == Cardinality({k \in DOMAIN m : m[k].is_active})

\* StableBTreeMap::len
len(m) == Cardinality(DOMAIN m)

\* mutant of insert: the map is replaced by the one entry
insert_DropsOthers(m, key, value) == [k \in {key} |-> value]

\* mutant of insert: an existing key is kept, as a create-only insert would
insert_KeepsExisting(m, key, value) ==
    IF key \in DOMAIN m THEN m ELSE [k \in (DOMAIN m) \cup {key} |-> IF k = key THEN value ELSE m[k]]

\* StableBTreeMap::insert: the map after the insert (its return value is get(m, key))
insert(m, key, value) ==
    [k \in (DOMAIN m) \cup {key} |-> IF k = key THEN value ELSE m[k]]

\* Vec::contains
contains(s, x) == \E i \in 1..Len(s) : s[i] = x

\* the record of a call, as the caller observes it
Call(op, caller, key, description, is_active, choice, result, returned, count) ==
    [op |-> op, caller |-> caller, key |-> key, description |-> description,
     is_active |-> is_active, choice |-> choice, result |-> result,
     returned |-> returned, count |-> count]

\* the codec at rest
CodecIdle == [stage |-> "idle", p |-> None, bytes |-> << >>, out |-> None]

Init ==
    /\ PROPOSAL_MAP = [k \in {} |-> None]
    /\ last = Call("init", "-", 0, "-", FALSE, "-", "-", None, 0)
    /\ passed_keys = {}
    /\ created_keys = {}
    /\ ok_votes = {}
    /\ phase = [k \in Keys |-> "-"]
    /\ codec = CodecIdle

(***************************************************************************)
(* The records the handlers build.                                         *)
(***************************************************************************)
\* mutant of NewProposal: a new proposal is always stored active
NewProposal_AlwaysActive(caller, description, is_active) ==
    [description |-> description,
     approve     |-> 0,
     reject      |-> 0,
     pass        |-> 0,
     is_active   |-> TRUE,
     voted       |-> << >>,
     owner       |-> caller]

\* create_proposal: the value it inserts
NewProposal(caller, description, is_active) ==
    [description |-> description,
     approve     |-> 0,
     reject      |-> 0,
     pass        |-> 0,
     is_active   |-> is_active,
     voted       |-> << >>,
     owner       |-> caller]

\* mutant of EditedProposal: the edit changes the description only
EditedProposal_KeepsActivity(old_proposal, description, is_active) ==
    [old_proposal EXCEPT !.description = description]

\* mutant of EditedProposal: the record is rebuilt, its tallies start again at 0
EditedProposal_TalliesReset(old_proposal, description, is_active) ==
    [old_proposal EXCEPT !.description = description, !.is_active = is_active,
                         !.approve = 0, !.reject = 0, !.pass = 0]

\* edit_proposal: Proposal { description, is_active, ..old_proposal }
EditedProposal(old_proposal, description, is_active) ==
    [old_proposal EXCEPT !.description = description, !.is_active = is_active]

\* mutant of EndedProposal: the flag is toggled instead of cleared
EndedProposal_Toggled(proposal) == [proposal EXCEPT !.is_active = ~@]

\* end_proposal: proposal.is_active = false
EndedProposal(proposal) == [proposal EXCEPT !.is_active = FALSE]

\* mutant of OwnerCheck: the owner comparison is dropped
OwnerCheck_Anyone(proposal, caller) == "Ok"

\* edit_proposal, end_proposal: caller() != proposal.owner
OwnerCheck(proposal, caller) ==
    IF caller # proposal.owner THEN "AccessRejected" ELSE "Ok"

\* mutant of VoteCheck: the voted list is not consulted
VoteCheck_NoAlreadyVoted(proposal, caller) ==
    IF ~proposal.is_active THEN "ProposalIsNotActive" ELSE "Ok"

\* mutant of VoteCheck: the two checks in the other order
VoteCheck_ActiveFirst(proposal, caller) ==
    IF ~proposal.is_active THEN "ProposalIsNotActive"
    ELSE IF contains(proposal.voted, caller) THEN "AlreadyVoted"
    ELSE "Ok"

\* mutant of VoteCheck: the is_active flag is not consulted
VoteCheck_NoActive(proposal, caller) ==
    IF contains(proposal.voted, caller) THEN "AlreadyVoted" ELSE "Ok"

\* vote: the two checks, in the order of the if / else if
VoteCheck(proposal, caller) ==
    IF contains(proposal.voted, caller) THEN "AlreadyVoted"
    ELSE IF ~proposal.is_active THEN "ProposalIsNotActive"
    ELSE "Ok"

\* mutant of Tally: Pass is accepted but not counted
Tally_PassUncounted(proposal, choice) ==
    CASE choice = "Approve" -> [proposal EXCEPT !.approve = @ + 1]
      [] choice = "Reject"  -> [proposal EXCEPT !.reject = @ + 1]
      [] choice = "Pass"    -> proposal

\* vote: match choice { ... += 1 }.  The tallies are u32; a tally never exceeds
\* the number of voters, which MAX_VALUE_SIZE keeps under 200, so the
\* addition cannot overflow and is modelled on the integers.
Tally(proposal, choice) ==
    CASE choice = "Approve" -> [proposal EXCEPT !.approve = @ + 1]
      [] choice = "Reject"  -> [proposal EXCEPT !.reject = @ + 1]
      [] choice = "Pass"    -> [proposal EXCEPT !.pass = @ + 1]

\* mutant of VotedProposal: the caller is recorded, the tally is not written back
VotedProposal_TallyLost(proposal, caller, choice) ==
    [proposal EXCEPT !.voted = Append(@, caller)]

\* mutant of VotedProposal: the voter is also stored as the owner
VotedProposal_OwnerTaken(proposal, caller, choice) ==
    [Tally(proposal, choice) EXCEPT !.voted = Append(@, caller), !.owner = caller]

\* mutant of VotedProposal: the write is based on a record without the votes
\* cast so far (a lost update)
VotedProposal_VotersLost(proposal, caller, choice) ==
    [Tally(proposal, choice) EXCEPT !.voted = << caller >>]

\* vote: the tally, then proposal.voted.push(caller)
VotedProposal(proposal, caller, choice) ==
    [Tally(proposal, choice) EXCEPT !.voted = Append(@, caller)]

(***************************************************************************)
(* Outcomes shared by the update handlers.                                 *)
(***************************************************************************)
\* mutant of Reject: the error path leaves an empty record at an absent key
Reject_CreatesEntry(call) ==
    /\ last' = call
    /\ PROPOSAL_MAP' =
          IF call.key \in DOMAIN PROPOSAL_MAP THEN PROPOSAL_MAP
          ELSE insert(PROPOSAL_MAP, call.key, NewProposal(call.caller, "short", FALSE))

\* the handler returns early with an error: nothing is written
Reject(call) ==
    /\ last' = call
    /\ UNCHANGED PROPOSAL_MAP

\* p.borrow_mut().insert(key, value).ok_or(UpdateError("Insert failed")):
\* insert panics on a value over MAX_SIZE (the message traps and nothing is
\* written); otherwise it writes and returns the previous value, which ok_or
\* turns into the handler's result
Write(call, key, value) ==
    IF FitsMaxSize(value)
    THEN /\ PROPOSAL_MAP' = insert(PROPOSAL_MAP, key, value)
         /\ last' = [call EXCEPT !.result = ok_or(get(PROPOSAL_MAP, key), "UpdateError")]
    ELSE /\ last' = [call EXCEPT !.result = "Trap"]
         /\ UNCHANGED PROPOSAL_MAP

(***************************************************************************)
(* The handlers.                                                           *)
(***************************************************************************)
\* #[query] fn get_proposal(key: u64) -> Option<Proposal>
get_proposal(key) ==
    /\ last' = Call("get_proposal", "-", key, "-", FALSE, "-", "Returned",
                    get(PROPOSAL_MAP, key), 0)
    /\ UNCHANGED << PROPOSAL_MAP, passed_keys, created_keys >>

\* #[query] fn get_proposal_count() -> u64
get_proposal_count ==
    /\ last' = Call("get_proposal_count", "-", 0, "-", FALSE, "-", "Returned",
                    None, len(PROPOSAL_MAP))
    /\ UNCHANGED << PROPOSAL_MAP, passed_keys, created_keys >>

\* #[update] fn create_proposal(key: u64, proposal: CreateProposal) -> Option<Proposal>
create_proposal(caller, key, description, is_active) ==
    LET value == NewProposal(caller, description, is_active)
        call  == Call("create_proposal", caller, key, description, is_active, "-",
                      "-", None, 0)
    IN  /\ passed_keys' = passed_keys \cup {key}
        /\ IF FitsMaxSize(value)
           THEN /\ PROPOSAL_MAP' = insert(PROPOSAL_MAP, key, value)
                /\ last' = [call EXCEPT !.result = "Returned",
                                        !.returned = get(PROPOSAL_MAP, key)]
                /\ created_keys' = created_keys \cup {key}
           ELSE /\ last' = [call EXCEPT !.result = "Trap"]
                /\ UNCHANGED << PROPOSAL_MAP, created_keys >>

\* #[update] fn edit_proposal(key: u64, proposal: CreateProposal) -> Result<(), VoteError>
edit_proposal(caller, key, description, is_active) ==
    LET old_proposal_opt == get(PROPOSAL_MAP, key)
        call == Call("edit_proposal", caller, key, description, is_active, "-",
                     "-", None, 0)
    IN  /\ UNCHANGED << passed_keys, created_keys >>
        /\ IF old_proposal_opt = None
           THEN Reject([call EXCEPT !.result = "NoSuchProposal"])
           ELSE LET old_proposal == old_proposal_opt[1] IN
                IF OwnerCheck(old_proposal, caller) # "Ok"
                THEN Reject([call EXCEPT !.result = OwnerCheck(old_proposal, caller)])
                ELSE Write(call, key, EditedProposal(old_proposal, description, is_active))

\* #[update] fn end_proposal(key: u64) -> Result<(), VoteError>
end_proposal(caller, key) ==
    LET proposal_opt == get(PROPOSAL_MAP, key)
        call == Call("end_proposal", caller, key, "-", FALSE, "-", "-", None, 0)
    IN  /\ UNCHANGED << passed_keys, created_keys >>
        /\ IF proposal_opt = None
           THEN Reject([call EXCEPT !.result = "NoSuchProposal"])
           ELSE LET proposal == proposal_opt[1] IN
                IF OwnerCheck(proposal, caller) # "Ok"
                THEN Reject([call EXCEPT !.result = OwnerCheck(proposal, caller)])
                ELSE Write(call, key, EndedProposal(proposal))

\* #[update] fn vote(key: u64, choice: Choice) -> Result<(), VoteError>
vote(caller, key, choice) ==
    LET proposal_opt == get(PROPOSAL_MAP, key)
        call == Call("vote", caller, key, "-", FALSE, choice, "-", None, 0)
    IN  /\ UNCHANGED << passed_keys, created_keys >>
        /\ IF proposal_opt = None
           THEN Reject([call EXCEPT !.result = "NoSuchProposal"])
           ELSE LET proposal == proposal_opt[1] IN
                IF VoteCheck(proposal, caller) # "Ok"
                THEN Reject([call EXCEPT !.result = VoteCheck(proposal, caller)])
                ELSE Write(call, key, VotedProposal(proposal, caller, choice))

GetProposal == \E key \in Keys : get_proposal(key)

CreateProposal ==
    \E caller \in Principals, key \in Keys, description \in Descriptions,
       is_active \in BOOLEAN :
        create_proposal(caller, key, description, is_active)

EditProposal ==
    \E caller \in Principals, key \in Keys, description \in Descriptions,
       is_active \in BOOLEAN :
        edit_proposal(caller, key, description, is_active)

EndProposal == \E caller \in Principals, key \in Keys : end_proposal(caller, key)

Vote == \E caller \in Principals, key \in Keys, choice \in Choice : vote(caller, key, choice)

(***************************************************************************)
(* History.  The history variables record what the calls did; no handler   *)
(* reads them.                                                             *)
(***************************************************************************)
\* ok_votes after the call recorded in last': a completed create_proposal
\* starts a new record at its key, a vote that returned Ok is added
TrackVotes ==
    ok_votes' =
        IF last'.op = "create_proposal" /\ last'.result = "Returned"
        THEN {v \in ok_votes : v[1] # last'.key}
        ELSE IF last'.op = "vote" /\ last'.result = "Ok"
        THEN ok_votes \cup {<< last'.key, last'.caller >>}
        ELSE ok_votes

History == TrackVotes /\ UNCHANGED << phase, codec >>

Next ==
    \/ GetProposal /\ History
    \/ get_proposal_count /\ History
    \/ CreateProposal /\ History
    \/ EditProposal /\ History
    \/ EndProposal /\ History
    \/ Vote /\ History

Spec == Init /\ [][Next]_vars

\* phase of key k after the call recorded in last'
PhaseAfter(k) ==
    IF last'.key # k \/ last'.result \notin {"Ok", "Returned"} THEN phase[k]
    ELSE IF last'.op = "create_proposal" THEN "-"
    ELSE IF last'.op = "end_proposal" THEN "ended"
    ELSE IF last'.op = "edit_proposal"
    THEN (IF phase[k] = "ended"
          THEN (IF last'.is_active THEN "reopened" ELSE "ended")
          ELSE IF phase[k] = "reopened" /\ last'.is_active THEN "reopened"
          ELSE "-")
    ELSE phase[k]

TrackPhase == phase' = [k \in Keys |-> PhaseAfter(k)]

HistoryReopen == TrackVotes /\ TrackPhase /\ UNCHANGED codec

\* the canister, with the phase of every key recorded
NextReopen ==
    \/ GetProposal /\ HistoryReopen
    \/ get_proposal_count /\ HistoryReopen
    \/ CreateProposal /\ HistoryReopen
    \/ EditProposal /\ HistoryReopen
    \/ EndProposal /\ HistoryReopen
    \/ Vote /\ HistoryReopen

SpecReopen == Init /\ [][NextReopen]_vars

\* the canister with one more key than Keys, so that a call on one key runs
\* while records are stored at another; fewer descriptions and choices
FrameKeys == 1..(MaxKey + 1)

FrameDescriptions == {"short", "big"}

FrameChoice == {"Approve", "Pass"}

NextFrame ==
    \/ (\E key \in FrameKeys : get_proposal(key)) /\ History
    \/ get_proposal_count /\ History
    \/ (\E caller \in Principals, key \in FrameKeys, description \in FrameDescriptions,
           is_active \in BOOLEAN :
            create_proposal(caller, key, description, is_active)) /\ History
    \/ (\E caller \in Principals, key \in FrameKeys, description \in FrameDescriptions,
           is_active \in BOOLEAN :
            edit_proposal(caller, key, description, is_active)) /\ History
    \/ (\E caller \in Principals, key \in FrameKeys : end_proposal(caller, key)) /\ History
    \/ (\E caller \in Principals, key \in FrameKeys, choice \in FrameChoice :
            vote(caller, key, choice)) /\ History

SpecFrame == Init /\ [][NextFrame]_vars

(***************************************************************************)
(* Record codec, byte by byte.  to_bytes is Encode!(self): the Candid       *)
(* header, then the field values in the order of their hashed field ids     *)
(* (reject, owner, voted, pass, approve, description, is_active).           *)
(* from_bytes is Decode!(bytes, Self): it reads the same layout back.       *)
(***************************************************************************)
\* "DIDL"; two table entries: record of 7 fields (id, type), vec principal;
\* one argument of type 0
CandidHeader ==
    << 68, 73, 68, 76, 2,
       108, 7,
       223, 162, 149, 20, 121,
       179, 176, 218, 195, 3, 104,
       186, 128, 254, 215, 3, 1,
       209, 201, 199, 210, 4, 121,
       205, 170, 169, 145, 5, 121,
       252, 145, 244, 248, 5, 113,
       187, 209, 170, 219, 11, 126,
       109, 104,
       1, 0 >>

RECURSIVE Leb128(_)
Leb128(n) ==
    IF n < 128 THEN << n >> ELSE << 128 + (n % 128) >> \o Leb128(n \div 128)

\* mutant of U32Bytes: the four bytes are written most significant first
U32Bytes_BigEndian(n) ==
    << (n \div 16777216) % 256, (n \div 65536) % 256, (n \div 256) % 256, n % 256 >>

\* nat32: four bytes, least significant first
U32Bytes(n) ==
    << n % 256, (n \div 256) % 256, (n \div 65536) % 256, (n \div 16777216) % 256 >>

\* the bytes of each description text (one letter repeated)
DescriptionBytes(d) ==
    [i \in 1..DescriptionLen(d) |->
        CASE d = "short" -> 115
          [] d = "near"  -> 110
          [] d = "big"   -> 98]

\* the bytes of each principal
PrincipalBytes(p) == [i \in 1..PrincipalLen(p) |-> IF p = "A" THEN 65 ELSE 66]

TextEnc(d) == Leb128(DescriptionLen(d)) \o DescriptionBytes(d)

PrincipalEnc(p) == << 1 >> \o Leb128(PrincipalLen(p)) \o PrincipalBytes(p)

RECURSIVE PrincipalsEnc(_)
PrincipalsEnc(s) ==
    IF s = << >> THEN << >> ELSE PrincipalEnc(Head(s)) \o PrincipalsEnc(Tail(s))

VecEnc(s) == Leb128(Len(s)) \o PrincipalsEnc(s)

BoolEnc(b) == << IF b THEN 1 ELSE 0 >>

\* Storable::to_bytes
to_bytes(p) ==
    CandidHeader
    \o U32Bytes(p.reject)
    \o PrincipalEnc(p.owner)
    \o VecEnc(p.voted)
    \o U32Bytes(p.pass)
    \o U32Bytes(p.approve)
    \o TextEnc(p.description)
    \o BoolEnc(p.is_active)

\* the readers return the value read and the position after it
RECURSIVE ReadLeb128(_, _)
ReadLeb128(b, pos) ==
    IF b[pos] < 128 THEN [value |-> b[pos], next |-> pos + 1]
    ELSE LET rest == ReadLeb128(b, pos + 1)
         IN  [value |-> (b[pos] - 128) + 128 * rest.value, next |-> rest.next]

ReadU32(b, pos) ==
    [value |-> b[pos] + 256 * b[pos + 1] + 65536 * b[pos + 2] + 16777216 * b[pos + 3],
     next  |-> pos + 4]

ReadPrincipal(b, pos) ==
    LET n     == ReadLeb128(b, pos + 1)
        bytes == SubSeq(b, n.next, n.next + n.value - 1)
    IN  [value |-> CHOOSE p \in Principals : PrincipalBytes(p) = bytes,
         next  |-> n.next + n.value]

RECURSIVE ReadPrincipals(_, _, _)
ReadPrincipals(b, pos, count) ==
    IF count = 0 THEN [value |-> << >>, next |-> pos]
    ELSE LET first == ReadPrincipal(b, pos)
             rest  == ReadPrincipals(b, first.next, count - 1)
         IN  [value |-> << first.value >> \o rest.value, next |-> rest.next]

ReadVec(b, pos) ==
    LET n == ReadLeb128(b, pos)
    IN  ReadPrincipals(b, n.next, n.value)

ReadText(b, pos) ==
    LET n     == ReadLeb128(b, pos)
        bytes == SubSeq(b, n.next, n.next + n.value - 1)
    IN  [value |-> CHOOSE d \in Descriptions : DescriptionBytes(d) = bytes,
         next  |-> n.next + n.value]

ReadBool(b, pos) == [value |-> b[pos] = 1, next |-> pos + 1]

\* Storable::from_bytes
from_bytes(b) ==
    LET reject      == ReadU32(b, Len(CandidHeader) + 1)
        owner       == ReadPrincipal(b, reject.next)
        voted       == ReadVec(b, owner.next)
        pass        == ReadU32(b, voted.next)
        approve     == ReadU32(b, pass.next)
        description == ReadText(b, approve.next)
        is_active   == ReadBool(b, description.next)
    IN  [description |-> description.value,
         approve     |-> approve.value,
         reject      |-> reject.value,
         pass        |-> pass.value,
         is_active   |-> is_active.value,
         voted       |-> voted.value,
         owner       |-> owner.value]

\* the Proposal values the codec is applied to
CodecTallies == {0, 1, 258}

CodecVoted == {<< >>, << "A" >>, << "A", "B" >>, << "B", "A" >>}

CodecProposals ==
    [description : Descriptions,
     approve     : CodecTallies,
     reject      : CodecTallies,
     pass        : CodecTallies,
     is_active   : BOOLEAN,
     voted       : CodecVoted,
     owner       : Principals]

InitCodec ==
    /\ PROPOSAL_MAP = [k \in {} |-> None]
    /\ last = Call("init", "-", 0, "-", FALSE, "-", "-", None, 0)
    /\ passed_keys = {}
    /\ created_keys = {}
    /\ ok_votes = {}
    /\ phase = [k \in Keys |-> "-"]
    /\ codec \in {[CodecIdle EXCEPT !.stage = "value", !.p = Some(p)] : p \in CodecProposals}

\* insert encodes the value it stores
Encode ==
    /\ codec.stage = "value"
    /\ codec' = [codec EXCEPT !.stage = "encoded", !.bytes = to_bytes(codec.p[1])]
    /\ UNCHANGED << PROPOSAL_MAP, last, passed_keys, created_keys, ok_votes, phase >>

\* get decodes the bytes it reads
Decode ==
    /\ codec.stage = "encoded"
    /\ codec' = [codec EXCEPT !.stage = "decoded", !.out = Some(from_bytes(codec.bytes))]
    /\ UNCHANGED << PROPOSAL_MAP, last, passed_keys, created_keys, ok_votes, phase >>

NextCodec == Encode \/ Decode

SpecCodec == InitCodec /\ [][NextCodec]_vars

(***************************************************************************)
(* Properties.                                                             *)
(***************************************************************************)
NoDuplicates(s) == \A i, j \in 1..Len(s) : i # j => s[i] # s[j]

\* the call that led to the next state
IsCall(op) == last'.op = op

\* the call that led to the next state addressed a key that was present
OnExisting == last'.key \in DOMAIN PROPOSAL_MAP

\* the record at the call's key before the call, and after it
Before == PROPOSAL_MAP[last'.key]

After == PROPOSAL_MAP'[last'.key]

\* the call left the record at its key as it was
RecordUnchanged == last'.key \in DOMAIN PROPOSAL_MAP' /\ After = Before

\* C1: in every reachable state, the voted list of every stored proposal holds
\* no identity more than once.
C1_VotedHasNoDuplicates ==
    \A k \in DOMAIN PROPOSAL_MAP : NoDuplicates(PROPOSAL_MAP[k].voted)

\* C1 witness: a vote has just succeeded on a proposal that now has two voters.
C1_Witness ==
    /\ last.op = "vote" /\ last.result = "Ok"
    /\ Len(PROPOSAL_MAP[last.key].voted) = 2

\* C2: in every reachable state, approve + reject + pass of every stored
\* proposal equals the number of entries of its voted list.
C2_TalliesSumToVoted ==
    \A k \in DOMAIN PROPOSAL_MAP :
        PROPOSAL_MAP[k].approve + PROPOSAL_MAP[k].reject + PROPOSAL_MAP[k].pass
            = Len(PROPOSAL_MAP[k].voted)

\* C2 witness: an edit has just succeeded on a proposal that holds two votes,
\* one of them a Pass.
C2_Witness ==
    /\ last.op = "edit_proposal" /\ last.result = "Ok"
    /\ Len(PROPOSAL_MAP[last.key].voted) = 2
    /\ PROPOSAL_MAP[last.key].pass = 1

\* C4: a vote on an existing proposal by a caller already in its voted list
\* returns AlreadyVoted, whether the proposal is active or not, and leaves the
\* stored record unchanged.
C4_AlreadyVotedFirst ==
    [][ (IsCall("vote") /\ OnExisting /\ contains(Before.voted, last'.caller))
        => (last'.result = "AlreadyVoted" /\ RecordUnchanged /\ UNCHANGED PROPOSAL_MAP)
      ]_vars

\* C4 witness: a repeated vote on an inactive proposal was answered AlreadyVoted.
C4_Witness ==
    /\ last.op = "vote" /\ last.result = "AlreadyVoted"
    /\ ~PROPOSAL_MAP[last.key].is_active
    /\ contains(PROPOSAL_MAP[last.key].voted, last.caller)

\* C5: a vote on an existing inactive proposal by a caller who is not in its
\* voted list returns ProposalIsNotActive, and the tallies and the voted list
\* of the stored record are unchanged.
C5_InactiveRefusesVote ==
    [][ (IsCall("vote") /\ OnExisting /\ ~Before.is_active
            /\ ~contains(Before.voted, last'.caller))
        => /\ last'.result = "ProposalIsNotActive"
           /\ last'.key \in DOMAIN PROPOSAL_MAP'
           /\ After.approve = Before.approve
           /\ After.reject = Before.reject
           /\ After.pass = Before.pass
           /\ After.voted = Before.voted
      ]_vars

\* C5 witness: a first-time voter was answered ProposalIsNotActive on a proposal
\* that already holds a vote.
C5_Witness ==
    /\ last.op = "vote" /\ last.result = "ProposalIsNotActive"
    /\ ~contains(PROPOSAL_MAP[last.key].voted, last.caller)
    /\ Len(PROPOSAL_MAP[last.key].voted) = 1

\* C6: edit_proposal or end_proposal on an existing proposal by a caller other
\* than the stored owner returns AccessRejected and leaves the stored record
\* unchanged.
C6_NonOwnerRejected ==
    [][ ((IsCall("edit_proposal") \/ IsCall("end_proposal")) /\ OnExisting
            /\ last'.caller # Before.owner)
        => (last'.result = "AccessRejected" /\ RecordUnchanged)
      ]_vars

\* C6 witness: a non-owner's end_proposal was rejected and the proposal, which
\* holds that caller's vote, is still active.
C6_Witness ==
    /\ last.op = "end_proposal" /\ last.result = "AccessRejected"
    /\ last.caller # PROPOSAL_MAP[last.key].owner
    /\ PROPOSAL_MAP[last.key].is_active
    /\ contains(PROPOSAL_MAP[last.key].voted, last.caller)

\* the identities of a voted list
Voters(s) == {s[i] : i \in 1..Len(s)}

\* a vote by last'.caller for last'.choice was applied to the record at its key:
\* the matching tally is one higher, the other two are as before, the caller
\* has joined voted, and description, is_active and owner are as before
VoteApplied ==
    /\ last'.result = "Ok"
    /\ last'.key \in DOMAIN PROPOSAL_MAP'
    /\ After.approve = Before.approve + (IF last'.choice = "Approve" THEN 1 ELSE 0)
    /\ After.reject = Before.reject + (IF last'.choice = "Reject" THEN 1 ELSE 0)
    /\ After.pass = Before.pass + (IF last'.choice = "Pass" THEN 1 ELSE 0)
    /\ Voters(After.voted) = Voters(Before.voted) \cup {last'.caller}
    /\ Len(After.voted) = Len(Before.voted) + 1
    /\ After.description = Before.description
    /\ After.is_active = Before.is_active
    /\ After.owner = Before.owner

\* the call trapped: it returned nothing and wrote nothing
Trapped == last'.result = "Trap" /\ UNCHANGED PROPOSAL_MAP

\* the call is a vote on an existing, active proposal by a caller not in voted
FreshVote ==
    /\ IsCall("vote") /\ OnExisting
    /\ Before.is_active
    /\ ~contains(Before.voted, last'.caller)

\* C3 as stated: a vote by any caller who is not in the voted list of an
\* existing, active proposal succeeds, raises exactly the chosen tally by 1, adds
\* the caller to voted and leaves description, is_active and owner unchanged.
C3_Original == [][ FreshVote => VoteApplied ]_vars

\* C3 amended: such a vote succeeds, with those effects, provided the record
\* with the caller added to voted encodes to at most MAX_VALUE_SIZE bytes;
\* otherwise the call traps and the map is unchanged.
C3_FreshVoteApplied ==
    [][ FreshVote =>
          IF EncodedLen([Before EXCEPT !.voted = Append(@, last'.caller)]) <= MAX_VALUE_SIZE
          THEN VoteApplied
          ELSE Trapped
      ]_vars

\* C3 witness: the owner has just voted Reject, successfully, on their own
\* proposal, as its second voter.
C3_Witness ==
    /\ last.op = "vote" /\ last.result = "Ok" /\ last.choice = "Reject"
    /\ last.caller = PROPOSAL_MAP[last.key].owner
    /\ Len(PROPOSAL_MAP[last.key].voted) = 2
    /\ PROPOSAL_MAP[last.key].voted[2] = last.caller
    /\ PROPOSAL_MAP[last.key].reject = 1

\* an edit with last'.description and last'.is_active was applied to the record
\* at its key: exactly these two fields are replaced
EditApplied ==
    /\ last'.result = "Ok"
    /\ last'.key \in DOMAIN PROPOSAL_MAP'
    /\ After.description = last'.description
    /\ After.is_active = last'.is_active
    /\ After.approve = Before.approve
    /\ After.reject = Before.reject
    /\ After.pass = Before.pass
    /\ After.voted = Before.voted
    /\ After.owner = Before.owner

\* the call is an edit_proposal of an existing proposal by its stored owner
OwnerEdit ==
    /\ IsCall("edit_proposal") /\ OnExisting
    /\ last'.caller = Before.owner

\* C7 as stated: edit_proposal by the stored owner on an existing proposal
\* returns success and replaces exactly description and is_active.
C7_Original == [][ OwnerEdit => EditApplied ]_vars

\* C7 amended: it does so provided the record with the new description encodes
\* to at most MAX_VALUE_SIZE bytes; otherwise the call traps and the map is
\* unchanged.
C7_OwnerEditApplied ==
    [][ OwnerEdit =>
          IF EncodedLen([Before EXCEPT !.description = last'.description]) <= MAX_VALUE_SIZE
          THEN EditApplied
          ELSE Trapped
      ]_vars

\* C7 witness: the owner has just edited, successfully, a proposal that holds
\* two votes, deactivating it.
C7_Witness ==
    /\ last.op = "edit_proposal" /\ last.result = "Ok" /\ ~last.is_active
    /\ last.caller = PROPOSAL_MAP[last.key].owner
    /\ Len(PROPOSAL_MAP[last.key].voted) = 2
    /\ PROPOSAL_MAP[last.key].approve = 1
    /\ PROPOSAL_MAP[last.key].reject = 1

\* C8: end_proposal by the stored owner on an existing proposal returns success
\* and sets is_active to false, leaving every other field unchanged; from then
\* on, as long as no create_proposal or edit_proposal is called on the key,
\* is_active stays false and every vote on the key by a caller who has not
\* voted returns ProposalIsNotActive.
C8_EndDeactivates ==
    [][ /\ (IsCall("end_proposal") /\ OnExisting /\ last'.caller = Before.owner)
           => /\ last'.result = "Ok"
              /\ last'.key \in DOMAIN PROPOSAL_MAP'
              /\ After.is_active = FALSE
              /\ After.description = Before.description
              /\ After.approve = Before.approve
              /\ After.reject = Before.reject
              /\ After.pass = Before.pass
              /\ After.voted = Before.voted
              /\ After.owner = Before.owner
        /\ \A k \in DOMAIN PROPOSAL_MAP :
              (~PROPOSAL_MAP[k].is_active
                 /\ ~((IsCall("create_proposal") \/ IsCall("edit_proposal")) /\ last'.key = k))
              => (k \in DOMAIN PROPOSAL_MAP' /\ ~PROPOSAL_MAP'[k].is_active)
        /\ (IsCall("vote") /\ OnExisting /\ ~Before.is_active
               /\ ~contains(Before.voted, last'.caller))
           => last'.result = "ProposalIsNotActive"
      ]_vars

\* C8 witness: the owner has just ended, successfully, a proposal that holds a
\* vote.
C8_Witness ==
    /\ last.op = "end_proposal" /\ last.result = "Ok"
    /\ last.caller = PROPOSAL_MAP[last.key].owner
    /\ ~PROPOSAL_MAP[last.key].is_active
    /\ Len(PROPOSAL_MAP[last.key].voted) = 1

\* a create_proposal stored its record and returned what was at the key before
CreateApplied ==
    /\ last'.result = "Returned"
    /\ last'.returned = (IF OnExisting THEN << Before >> ELSE << >>)
    /\ last'.key \in DOMAIN PROPOSAL_MAP'
    /\ After.owner = last'.caller
    /\ After.approve = 0 /\ After.reject = 0 /\ After.pass = 0
    /\ After.voted = << >>
    /\ After.description = last'.description
    /\ After.is_active = last'.is_active

\* the record create_proposal is asked to store
Requested ==
    [description |-> last'.description, approve |-> 0, reject |-> 0, pass |-> 0,
     is_active |-> last'.is_active, voted |-> << >>, owner |-> last'.caller]

\* C9 as stated: create_proposal by any caller stores at key a record with
\* owner = caller, zero tallies, empty voted and the given description and
\* is_active, and returns the previous record at key, or absent.
C9_Original == [][ IsCall("create_proposal") => CreateApplied ]_vars

\* C9 amended: it does so provided the new record encodes to at most
\* MAX_VALUE_SIZE bytes; otherwise the call traps and the map is unchanged.
C9_CreateStores ==
    [][ IsCall("create_proposal") =>
          IF EncodedLen(Requested) <= MAX_VALUE_SIZE THEN CreateApplied ELSE Trapped
      ]_vars

\* C9 witness: a create_proposal has just overwritten another owner's proposal,
\* which held two votes, and returned it.
C9_Witness ==
    /\ last.op = "create_proposal" /\ last.result = "Returned"
    /\ last.returned # None
    /\ last.returned[1].owner # last.caller
    /\ Len(last.returned[1].voted) = 2
    /\ PROPOSAL_MAP[last.key].voted = << >>

IsResultCall == IsCall("edit_proposal") \/ IsCall("end_proposal") \/ IsCall("vote")

\* C11: every edit_proposal, end_proposal or vote call that does not return
\* success leaves the whole map unchanged, and such a call on an absent key
\* returns NoSuchProposal and creates no entry at that key.
C11_ErrorsWriteNothing ==
    [][ IsResultCall =>
          /\ last'.result # "Ok" => UNCHANGED PROPOSAL_MAP
          /\ ~OnExisting => (last'.result = "NoSuchProposal"
                               /\ last'.key \notin DOMAIN PROPOSAL_MAP')
      ]_vars

\* C11 witness: a vote on an absent key was answered NoSuchProposal and the key
\* is still absent.
C11_Witness ==
    /\ last.op = "vote" /\ last.result = "NoSuchProposal"
    /\ last.key \notin DOMAIN PROPOSAL_MAP

\* the call passes the handler's checks and the record it goes on to write is
\* longer than MAX_VALUE_SIZE (end_proposal writes a record of the length it
\* read, so it never is)
OversizedWrite ==
    \/ OwnerEdit
         /\ EncodedLen([Before EXCEPT !.description = last'.description]) > MAX_VALUE_SIZE
    \/ FreshVote
         /\ EncodedLen([Before EXCEPT !.voted = Append(@, last'.caller)]) > MAX_VALUE_SIZE

\* C12 as stated: when the record that edit_proposal, end_proposal or vote
\* would write encodes to more than MAX_VALUE_SIZE bytes, the call returns the
\* typed error UpdateError and the stored record is unchanged.
C12_Original ==
    [][ OversizedWrite => (last'.result = "UpdateError" /\ RecordUnchanged) ]_vars

\* C13: in every reachable state, every stored record encodes to at most
\* MAX_VALUE_SIZE bytes.
C13_StoredRecordsFit ==
    \A k \in DOMAIN PROPOSAL_MAP : EncodedLen(PROPOSAL_MAP[k]) <= MAX_VALUE_SIZE

\* C13 witness: a vote has just been refused by the size bound on a record that
\* is exactly MAX_VALUE_SIZE bytes long.
C13_Witness ==
    /\ last.op = "vote" /\ last.result = "Trap"
    /\ EncodedLen(PROPOSAL_MAP[last.key]) = MAX_VALUE_SIZE

\* C14 as stated: once a record is stored at a key, the owner of the record at
\* that key is the same in every later state.
C14_Original ==
    [][ \A k \in DOMAIN PROPOSAL_MAP :
          k \in DOMAIN PROPOSAL_MAP' /\ PROPOSAL_MAP'[k].owner = PROPOSAL_MAP[k].owner
      ]_vars

\* C14 amended: the owner of the record at a key is left unchanged by
\* edit_proposal, end_proposal, vote and the queries; it changes only when a
\* create_proposal call overwrites the key, which makes that caller the owner.
C14_OwnerChangesOnlyOnCreate ==
    [][ \A k \in DOMAIN PROPOSAL_MAP :
          /\ k \in DOMAIN PROPOSAL_MAP'
          /\ PROPOSAL_MAP'[k].owner # PROPOSAL_MAP[k].owner
               => (IsCall("create_proposal") /\ last'.key = k
                     /\ PROPOSAL_MAP'[k].owner = last'.caller)
      ]_vars

\* C14 witness: a caller other than the owner has just voted, successfully, as
\* the first voter of a proposal.
C14_Witness ==
    /\ last.op = "vote" /\ last.result = "Ok"
    /\ last.caller # PROPOSAL_MAP[last.key].owner
    /\ PROPOSAL_MAP[last.key].voted = << last.caller >>

\* C15 as stated: in every step, none of the three tallies of the record stored
\* at a key is smaller after the step than before it.
C15_Original ==
    [][ \A k \in DOMAIN PROPOSAL_MAP :
          /\ k \in DOMAIN PROPOSAL_MAP'
          /\ PROPOSAL_MAP'[k].approve >= PROPOSAL_MAP[k].approve
          /\ PROPOSAL_MAP'[k].reject >= PROPOSAL_MAP[k].reject
          /\ PROPOSAL_MAP'[k].pass >= PROPOSAL_MAP[k].pass
      ]_vars

\* C15 amended: the tallies of a record start at 0 when create_proposal stores
\* it, and no edit_proposal, end_proposal, vote or query lowers any of them;
\* only a create_proposal call that overwrites the key sets them back to 0.
C15_TalliesFallOnlyOnCreate ==
    [][ /\ \A k \in DOMAIN PROPOSAL_MAP' \ DOMAIN PROPOSAL_MAP :
              /\ PROPOSAL_MAP'[k].approve = 0
              /\ PROPOSAL_MAP'[k].reject = 0
              /\ PROPOSAL_MAP'[k].pass = 0
        /\ \A k \in DOMAIN PROPOSAL_MAP :
              /\ k \in DOMAIN PROPOSAL_MAP'
              /\ (PROPOSAL_MAP'[k].approve < PROPOSAL_MAP[k].approve
                    \/ PROPOSAL_MAP'[k].reject < PROPOSAL_MAP[k].reject
                    \/ PROPOSAL_MAP'[k].pass < PROPOSAL_MAP[k].pass)
                 => (IsCall("create_proposal") /\ last'.key = k
                       /\ PROPOSAL_MAP'[k].approve = 0
                       /\ PROPOSAL_MAP'[k].reject = 0
                       /\ PROPOSAL_MAP'[k].pass = 0)
      ]_vars

\* C15 witness: a second Approve vote has just succeeded, the tally is 2.
C15_Witness ==
    /\ last.op = "vote" /\ last.result = "Ok" /\ last.choice = "Approve"
    /\ PROPOSAL_MAP[last.key].approve = 2

\* the call is a create_proposal on an existing key by a caller other than the
\* stored owner
CreateOverOther ==
    /\ IsCall("create_proposal") /\ OnExisting
    /\ last'.caller # Before.owner

\* in the current state, the last call was a create_proposal that replaced
\* another owner's record (which it returned)
JustReplaced ==
    /\ last.op = "create_proposal" /\ last.result = "Returned"
    /\ last.returned # None
    /\ last.returned[1].owner # last.caller

\* the next call is an edit_proposal or end_proposal on the replaced key by the
\* previous owner
PreviousOwnerCall ==
    /\ JustReplaced
    /\ IsCall("edit_proposal") \/ IsCall("end_proposal")
    /\ last'.key = last.key
    /\ last'.caller = last.returned[1].owner

\* the next call is a vote on the replaced key, stored active, by an identity
\* that had voted on the previous record
PreviousVoterVote ==
    /\ JustReplaced
    /\ IsCall("vote")
    /\ last'.key = last.key
    /\ contains(last.returned[1].voted, last'.caller)
    /\ Before.is_active

\* C20 as stated: a create_proposal on an existing key by a caller other than
\* the stored owner replaces the record and makes that caller the owner; the
\* previous owner's edit_proposal and end_proposal then return AccessRejected,
\* and an identity that voted on the previous record votes successfully again.
C20_Original ==
    [][ /\ CreateOverOther => CreateApplied
        /\ PreviousOwnerCall => last'.result = "AccessRejected"
        /\ PreviousVoterVote => VoteApplied
      ]_vars

\* C20 amended: the same, provided the record create_proposal is asked to
\* store, and then the record with the vote added, encode to at most
\* MAX_VALUE_SIZE bytes; otherwise the call traps and the map is unchanged.
C20_CreateNotOwnerRestricted ==
    [][ /\ CreateOverOther =>
              IF EncodedLen(Requested) <= MAX_VALUE_SIZE THEN CreateApplied ELSE Trapped
        /\ PreviousOwnerCall => (last'.result = "AccessRejected" /\ RecordUnchanged)
        /\ PreviousVoterVote =>
              IF EncodedLen([Before EXCEPT !.voted = Append(@, last'.caller)]) <= MAX_VALUE_SIZE
              THEN VoteApplied
              ELSE Trapped
      ]_vars

\* C20 witness: a create_proposal by a caller other than the owner has just
\* replaced, with an active proposal, a record on which that record's owner
\* had voted.
C20_Witness ==
    /\ JustReplaced
    /\ contains(last.returned[1].voted, last.returned[1].owner)
    /\ PROPOSAL_MAP[last.key].is_active
    /\ PROPOSAL_MAP[last.key].owner = last.caller
    /\ PROPOSAL_MAP[last.key].description = "short"

\* C18: the handlers run one at a time, each as one read-check-write step, so
\* under every interleaving of calls no successful vote is lost: the voted list
\* of the record at a key holds every caller whose vote returned Ok since that
\* record was created.
C18_NoVoteLost ==
    \A v \in ok_votes :
        /\ v[1] \in DOMAIN PROPOSAL_MAP
        /\ contains(PROPOSAL_MAP[v[1]].voted, v[2])

\* C18 witness: the votes of two different callers on one key have returned Ok,
\* the second one just now, after a call by the other caller.
C18_Witness ==
    /\ last.op = "vote" /\ last.result = "Ok"
    /\ \E v, w \in ok_votes : v[1] = last.key /\ w[1] = last.key /\ v[2] # w[2]
    /\ PROPOSAL_MAP[last.key].voted[1] # last.caller

\* the call is the owner's edit_proposal, with is_active = true, of a proposal
\* that end_proposal deactivated
ReopeningEdit ==
    /\ OwnerEdit
    /\ phase[last'.key] = "ended"
    /\ last'.is_active

\* the call is a vote, by a caller who has not voted, on a proposal that
\* end_proposal deactivated and the owner's edit_proposal activated again
VoteOnReopened ==
    /\ IsCall("vote") /\ OnExisting
    /\ phase[last'.key] = "reopened"
    /\ ~contains(Before.voted, last'.caller)

\* C16 as stated: after end_proposal has set is_active to false, the owner's
\* edit_proposal(key, description, is_active = true) sets it back to true, and
\* a subsequent vote by a caller who has not yet voted succeeds.
C16_Original ==
    [][ /\ ReopeningEdit => (EditApplied /\ After.is_active)
        /\ VoteOnReopened => VoteApplied
      ]_vars

\* C16 amended: the same, provided the record with the edit's description, and
\* then the record with the vote added, encode to at most MAX_VALUE_SIZE
\* bytes; otherwise the call traps and the map is unchanged.
C16_ReopenedAcceptsVotes ==
    [][ /\ ReopeningEdit =>
              IF EncodedLen([Before EXCEPT !.description = last'.description]) <= MAX_VALUE_SIZE
              THEN EditApplied /\ After.is_active
              ELSE Trapped
        /\ VoteOnReopened =>
              IF EncodedLen([Before EXCEPT !.voted = Append(@, last'.caller)]) <= MAX_VALUE_SIZE
              THEN VoteApplied
              ELSE Trapped
        /\ \A k \in Keys :
              /\ phase'[k] = "ended" => ~PROPOSAL_MAP'[k].is_active
              /\ phase'[k] = "reopened" => PROPOSAL_MAP'[k].is_active
      ]_vars

\* C16 witness: a vote has just succeeded on a proposal that end_proposal had
\* deactivated and the owner's edit_proposal activated again; the voter is not
\* the owner and an earlier vote is still counted.
C16_Witness ==
    /\ last.op = "vote" /\ last.result = "Ok"
    /\ phase[last.key] = "reopened"
    /\ last.caller # PROPOSAL_MAP[last.key].owner
    /\ Len(PROPOSAL_MAP[last.key].voted) = 2

\* C19: every operation called with key k leaves the records stored at every
\* other key unchanged (no other key gains, loses or changes a record), and
\* get_proposal and get_proposal_count leave the whole map unchanged.
C19_OtherKeysUnchanged ==
    [][ /\ \A k \in (DOMAIN PROPOSAL_MAP) \cup (DOMAIN PROPOSAL_MAP') :
              k # last'.key =>
                  /\ k \in DOMAIN PROPOSAL_MAP
                  /\ k \in DOMAIN PROPOSAL_MAP'
                  /\ PROPOSAL_MAP'[k] = PROPOSAL_MAP[k]
        /\ (IsCall("get_proposal") \/ IsCall("get_proposal_count")) =>
              PROPOSAL_MAP' = PROPOSAL_MAP
      ]_vars

\* C19 witness: a vote has just succeeded at one key while another key holds
\* a record with a counted vote.
C19_Witness ==
    /\ last.op = "vote" /\ last.result = "Ok"
    /\ \E k \in DOMAIN PROPOSAL_MAP :
          /\ k # last.key
          /\ Len(PROPOSAL_MAP[k].voted) >= 1
          /\ PROPOSAL_MAP[k] # PROPOSAL_MAP[last.key]

\* C17: the record codec is a lossless round trip: for every Proposal p whose
\* encoding is at most MAX_VALUE_SIZE bytes, from_bytes(to_bytes(p)) equals p
\* in every field (voted with its order), so what get decodes is the record
\* insert encoded; the encoding has the length the size bound is checked on.
C17_CodecRoundTrip ==
    /\ codec.stage \in {"encoded", "decoded"} =>
          Len(codec.bytes) = EncodedLen(codec.p[1])
    /\ (codec.stage = "decoded" /\ Len(codec.bytes) <= MAX_VALUE_SIZE) =>
          codec.out = Some(codec.p[1])

\* C17 witness: a record with two voters in the order B, A and a tally above
\* 255 has been encoded within the size bound and decoded.
C17_Witness ==
    /\ codec.stage = "decoded"
    /\ Len(codec.bytes) <= MAX_VALUE_SIZE
    /\ codec.p[1].voted = << "B", "A" >>
    /\ codec.p[1].approve = 258
    /\ codec.out # None

=============================================================================
